---- MODULE Spec2Model ----
(***************************************************************************)
(* A model of app.py, the BAMPR-II run log: the worksheet adapter          *)
(* (append_log), the auto-increment helpers (format_counter,               *)
(* extract_counter, get_last_counter), the run-entry form (session state,  *)
(* group toggles, resync, reset, Log Run) and the plot tab's aggregation   *)
(* of the filtered table into sized bubbles.                               *)
(*                                                                         *)
(* A Python str is a sequence of one-character strings, so that replace,   *)
(* re.sub, strip, zfill and int are computed character by character.       *)
(* Column names are kept as TLA+ strings: the code only compares them.     *)
(***************************************************************************)
EXTENDS Integers, Sequences, FiniteSets, TLC

VARIABLES
    ws,          \* the "Log" worksheet: <<header row, data row, ...>>, <<>> when blank
    active,      \* st.session_state["active_<group>"], by group index
    val,         \* st.session_state["val_<group>_<var>"], by <<group index, var index>>
    counter,     \* st.session_state["_counter_val_<group>_<var>"], auto_increment keys only
    shown,       \* the log_message the last script run displayed (st.success / st.error)
    op,          \* the interaction that produced this state (observation only)
    df_filtered, \* plot tab: the filtered table, a sequence of records
    plot,        \* plot tab: the widgets' values and the column roles
    grouped,     \* plot tab: the aggregated bins, NotRun before the first aggregation
    writers,     \* concurrent append_log calls: each caller's position and locals
    peer,        \* the session state of a second browser session on the same worksheet
    trip         \* a number formatted by format_counter and read back by extract_counter

vars == <<ws, active, val, counter, shown, op, df_filtered, plot, grouped, writers, peer,
          trip>>
formVars == <<ws, active, val, counter, shown>>
plotVars == <<df_filtered, plot, grouped>>
concVars == <<writers, peer, trip>>

(***************************************************************************)
(* Bounds of the model.                                                    *)
(***************************************************************************)
MaxRows == 1        \* data rows the worksheet may hold before Log Run is disabled
MaxAppends == 3     \* worksheet rows after which the adapter is no longer called
MaxHist == 3        \* historical values in the column of a counter scan
MaxRecords == 3     \* records in the filtered table of the plot tab
MaxOwnRows == 2     \* data rows of the worksheet up to which a lone session logs
MaxN == 12          \* the numbers formatted and read back
MaxLogs == 3        \* rows that two sessions on one worksheet log between them

(***************************************************************************)
(* Python values.                                                          *)
(***************************************************************************)
None == -1                          \* Python's None where an int is expected
EmptyStr == << >>                   \* ""
Digits == {"0", "1", "2", "3", "4", "5", "6", "7", "8", "9"}
Whitespace == {" "}

DigitVal(c) ==
    CASE c = "0" -> 0 [] c = "1" -> 1 [] c = "2" -> 2 [] c = "3" -> 3
      [] c = "4" -> 4 [] c = "5" -> 5 [] c = "6" -> 6 [] c = "7" -> 7
      [] c = "8" -> 8 [] c = "9" -> 9

DigitChar(d) == <<"0", "1", "2", "3", "4", "5", "6", "7", "8", "9">>[d + 1]

Max(S) == CHOOSE m \in S : \A x \in S : x <= m
Min(S) == CHOOSE m \in S : \A x \in S : m <= x
Range(s) == {s[i] : i \in 1..Len(s)}

RECURSIVE IntToStr(_)
\* str(n) for n >= 0
IntToStr(n) ==
    IF n < 10 THEN <<DigitChar(n)>>
    ELSE IntToStr(n \div 10) \o <<DigitChar(n % 10)>>

RECURSIVE zfill(_, _)
\* str.zfill(width): zeros on the left up to the width (no sign: n >= 0)
zfill(s, width) == IF Len(s) >= width THEN s ELSE zfill(<<"0">> \o s, width)

RECURSIVE ParseDigits(_)
\* the value of a non-empty string of ASCII digits
ParseDigits(s) ==
    IF Len(s) = 1 THEN DigitVal(s[1])
    ELSE 10 * ParseDigits(SubSeq(s, 1, Len(s) - 1)) + DigitVal(s[Len(s)])

\* int(s) where s holds digits only: ValueError (here None) on ""
int(s) == IF s = EmptyStr THEN None ELSE ParseDigits(s)

\* re.sub(r"[^0-9]", "", s)
re_sub_non_digits(s) == SelectSeq(s, LAMBDA c : c \in Digits)

RECURSIVE replace(_, _)
\* s.replace(old, "") for a non-empty old: every non-overlapping occurrence,
\* found left to right, is removed
replace(s, old) ==
    IF Len(s) < Len(old) THEN s
    ELSE IF SubSeq(s, 1, Len(old)) = old
         THEN replace(SubSeq(s, Len(old) + 1, Len(s)), old)
         ELSE <<s[1]>> \o replace(SubSeq(s, 2, Len(s)), old)

RECURSIVE lstrip(_)
lstrip(s) ==
    IF s # EmptyStr /\ s[1] \in Whitespace THEN lstrip(SubSeq(s, 2, Len(s))) ELSE s

RECURSIVE rstrip(_)
rstrip(s) ==
    IF s # EmptyStr /\ s[Len(s)] \in Whitespace
    THEN rstrip(SubSeq(s, 1, Len(s) - 1)) ELSE s

\* str.strip()
strip(s) == rstrip(lstrip(s))

(***************************************************************************)
(* Auto-increment helpers.                                                 *)
(***************************************************************************)
format_counter(n, var) ==
    IF var.format = "prefixed"
    THEN var.prefix \o zfill(IntToStr(n), var.pad)
    ELSE zfill(IntToStr(n), var.pad)

extract_counter(value, var) ==
    LET stripped == IF var.format = "prefixed" /\ var.prefix # EmptyStr
                    THEN replace(value, var.prefix)
                    ELSE value
    IN  int(re_sub_non_digits(stripped))

(***************************************************************************)
(* The configuration (config.yaml, read by load_config): an always-on      *)
(* group with a required, prefixed auto_increment variable, and a          *)
(* toggleable group with a padded auto_increment variable and a required   *)
(* text variable.  " -- " stands for the em dash between spaces of the     *)
(* column names, which this module's character set cannot hold.            *)
(***************************************************************************)
groups == <<
    [name |-> "General", always_on |-> TRUE, variables |-> <<
        [name |-> "Run ID", type |-> "auto_increment", required |-> TRUE,
         default |-> EmptyStr, start |-> 1, pad |-> 4,
         prefix |-> <<"R", "U", "N", "-">>, format |-> "prefixed"] >>],
    [name |-> "Laser", always_on |-> FALSE, variables |-> <<
        [name |-> "Sample", type |-> "auto_increment", required |-> FALSE,
         default |-> EmptyStr, start |-> 5, pad |-> 2,
         prefix |-> EmptyStr, format |-> "padded"],
        [name |-> "Power", type |-> "text", required |-> TRUE,
         default |-> EmptyStr, start |-> 1, pad |-> 4,
         prefix |-> EmptyStr, format |-> "padded"] >>] >>

GroupIds == 1..Len(groups)
Keys == UNION {{<<g, v>> : v \in 1..Len(groups[g].variables)} : g \in GroupIds}
Var(k) == groups[k[1]].variables[k[2]]
AutoKeys == {k \in Keys : Var(k).type = "auto_increment"}

\* f"{group['name']} -- {var['name']}"
col_names == [k \in Keys |-> groups[k[1]].name \o " -- " \o Var(k).name]
col_name(k) == col_names[k]

(***************************************************************************)
(* The worksheet (gspread) as the adapter uses it.                         *)
(***************************************************************************)
get_all_values(sheet) == sheet
row_values(sheet, i) == sheet[i]
append_row(sheet, cells) == Append(sheet, cells)
\* ws.update("1:1", [cells]): the cells given are written from column 1 on, the
\* cells of row 1 beyond them stay as they are
update_row1(sheet, cells) ==
    [sheet EXCEPT ![1] = cells \o SubSeq(sheet[1], Len(cells) + 1, Len(sheet[1]))]

(***************************************************************************)
(* A dict is the sequence of its <<key, value>> items in insertion order.  *)
(***************************************************************************)
dict_keys(d) == [i \in 1..Len(d) |-> d[i][1]]
dict_values(d) == [i \in 1..Len(d) |-> d[i][2]]
has_key(d, k) == \E i \in 1..Len(d) : d[i][1] = k
dict_get(d, k, default) ==
    IF has_key(d, k) THEN d[CHOOSE i \in 1..Len(d) : d[i][1] = k][2] ELSE default
\* d[k] = x: the item keeps its place when the key is already there
dict_set(d, k, x) ==
    IF has_key(d, k)
    THEN [i \in 1..Len(d) |-> IF d[i][1] = k THEN <<k, x>> ELSE d[i]]
    ELSE Append(d, <<k, x>>)

RECURSIVE dict_build(_, _, _)
\* {k: row.get(k, "") for k in names}, continuing from the dict acc
dict_build(acc, row, names) ==
    IF names = << >> THEN acc
    ELSE dict_build(dict_set(acc, names[1], dict_get(row, names[1], EmptyStr)),
                    row, Tail(names))

(***************************************************************************)
(* append_log, in the steps it takes against the worksheet: `existing` is  *)
(* what get_all_values returned at its first line.                         *)
(***************************************************************************)
new_headers(existing, row) ==
    SelectSeq(dict_keys(row), LAMBDA k : k \notin Range(existing[1]))

\* mutant of write_headers: row 1 is overwritten with the row's own keys
write_headers_overwrites(sheet, existing, row) ==
    IF existing = << >>
    THEN append_row(sheet, dict_keys(row))
    ELSE update_row1(sheet, dict_keys(row))

\* mutant of write_headers: row 1 is written with the new columns only
write_headers_new_only(sheet, existing, row) ==
    IF existing = << >>
    THEN append_row(sheet, dict_keys(row))
    ELSE update_row1(sheet, new_headers(existing, row))

\* the worksheet after the header step (the header row written or extended)
write_headers(sheet, existing, row) ==
    IF existing = << >>
    THEN append_row(sheet, dict_keys(row))
    ELSE IF new_headers(existing, row) # << >>
         THEN update_row1(sheet, existing[1] \o new_headers(existing, row))
         ELSE sheet

\* mutant of align_row: the row is written as built, not re-keyed
align_row_as_built(sheet, existing, row) == row

\* the row re-keyed by the header row read back from the worksheet
align_row(sheet, existing, row) ==
    IF existing = << >> THEN row
    ELSE dict_build(<< >>, row, row_values(sheet, 1))

append_log(sheet, row) ==
    LET existing == get_all_values(sheet)
        headed == write_headers(sheet, existing, row)
    IN  append_row(headed, dict_values(align_row(headed, existing, row)))

(***************************************************************************)
(* get_last_counter: `reachable` is whether the worksheet calls succeed.   *)
(***************************************************************************)
index(s, x) == CHOOSE i \in 1..Len(s) : s[i] = x /\ \A j \in 1..(i - 1) : s[j] # x

scanned(all_values, col_idx, var) ==
    {extract_counter(all_values[r][col_idx], var) :
        r \in {r \in 2..Len(all_values) :
                  /\ col_idx <= Len(all_values[r])
                  /\ all_values[r][col_idx] # EmptyStr}} \ {None}

\* mutant of get_last_counter: a value that does not parse fails the scan
get_last_counter_fails_on_bad(sheet, name, var, reachable) ==
    IF ~reachable \/ Len(sheet) < 2 \/ name \notin Range(sheet[1]) THEN var.start - 1
    ELSE LET c == index(sheet[1], name)
             cells == {sheet[r][c] : r \in {r \in 2..Len(sheet) :
                          c <= Len(sheet[r]) /\ sheet[r][c] # EmptyStr}}
             nums == {extract_counter(x, var) : x \in cells}
         IN  IF nums # {} /\ None \notin nums THEN Max(nums) ELSE var.start - 1

get_last_counter(sheet, name, var, reachable) ==
    IF ~reachable THEN var.start - 1
    ELSE LET all_values == get_all_values(sheet) IN
         IF Len(all_values) < 2 THEN var.start - 1
         ELSE IF name \notin Range(all_values[1]) THEN var.start - 1
         ELSE LET nums == scanned(all_values, index(all_values[1], name), var)
              IN  IF nums # {} THEN Max(nums) ELSE var.start - 1

(***************************************************************************)
(* The run-entry form.  Every action is one interaction: the script run    *)
(* it triggers, with the handler's st.rerun() and the display of           *)
(* log_message at the top of the run that follows.                         *)
(***************************************************************************)
now == <<"t">>      \* datetime.now().strftime(...): one timestamp string

\* what the user types into each input (Run ID, Sample, Power)
Inputs(k) ==
    CASE k = <<1, 1>> -> {EmptyStr, <<"R", "U", "N", "-", "0", "0", "0", "7">>}
      [] k = <<2, 1>> -> {}
      [] k = <<2, 2>> -> {<<" ">>, <<"o", "k">>}

NoMessage == [type |-> "none", text |-> "", missing |-> << >>, run_id |-> EmptyStr]
NoKey == <<0, 0>>
Idle == [kind |-> "", key |-> NoKey, ok |-> TRUE, stale |-> FALSE, row |-> << >>]
NoPlot == [x_decimals |-> 0, y_decimals |-> 0, size_scale |-> 0, colour_col |-> "(none)"]
NotRun == << >>

\* get_worksheet on first use: the "Log" worksheet, blank
NewSheet == << >>

\* mutant of is_active: the toggles are ignored
is_active_always(g) == TRUE

is_active(g) == groups[g].always_on \/ active[g]
active_groups == SelectSeq([g \in GroupIds |-> g], is_active)

RECURSIVE keys_of(_)
\* for group in gs: for var in group["variables"]
keys_of(gs) ==
    IF gs = << >> THEN << >>
    ELSE [v \in 1..Len(groups[gs[1]].variables) |-> <<gs[1], v>>] \o keys_of(Tail(gs))

\* the required variables of the active groups whose value strips to ""
is_missing(k) == Var(k).required /\ strip(val[k]) = EmptyStr
missing_keys == SelectSeq(keys_of(active_groups), is_missing)
\* mutant of missing: the scan stops at the first violation
missing_first_only ==
    IF missing_keys = << >> THEN << >> ELSE <<Var(missing_keys[1]).name>>

missing == [i \in 1..Len(missing_keys) |-> Var(missing_keys[i]).name]

RECURSIVE fill_row(_, _)
\* row[col_name] = st.session_state[val key], for every key of ks in order
fill_row(row, ks) ==
    IF ks = << >> THEN row
    ELSE fill_row(dict_set(row, col_name(ks[1]), val[ks[1]]), Tail(ks))

build_row == fill_row(<< <<"Timestamp", now>> >>, keys_of(active_groups))

\* last + 1 with last = get_last_counter(col_name, var)
next_from_sheet(k, sheet, reachable) ==
    get_last_counter(sheet, col_name(k), Var(k), reachable) + 1

\* mutant of advanced_keys: the loop runs over groups, not active_groups
advanced_keys_all == AutoKeys

\* the keys whose counter Log Run advances after a successful append_log
advanced_keys == {k \in AutoKeys : \E i \in 1..Len(active_groups) : active_groups[i] = k[1]}

\* session state init, against the worksheet as it is: the values of
\* active, counter and val; reachable is whether the worksheet answers
\* during this script run
init_active == [g \in GroupIds |-> TRUE]
\* mutant of init_counter: every counter starts at its start value
init_counter_from_start(sheet, reachable) == [k \in AutoKeys |-> Var(k).start]

init_counter(sheet, reachable) ==
    [k \in AutoKeys |-> next_from_sheet(k, sheet, reachable)]
init_val(n) ==
    [k \in Keys |->
        IF k \in AutoKeys THEN format_counter(n[k], Var(k)) ELSE Var(k).default]

PlotIdle == df_filtered = << >> /\ plot = NoPlot /\ grouped = NotRun

\* one session, one append_log call at a time, no helper called on its own
NoWriters == << >>
NoPeer == << >>
NoTrip == << >>
Alone == writers = NoWriters /\ peer = NoPeer /\ trip = NoTrip

Init ==
    /\ ws = NewSheet
    /\ active = init_active
    /\ \E reachable \in BOOLEAN : counter = init_counter(ws, reachable)
    /\ val = init_val(counter)
    /\ shown = NoMessage
    /\ op = Idle
    /\ PlotIdle
    /\ Alone

\* the page is opened anew: a fresh session state, initialised as above
NewSession(reachable) ==
    /\ active' = init_active
    /\ counter' = init_counter(ws, reachable)
    /\ val' = init_val(counter')
    /\ shown' = NoMessage
    /\ op' = Idle
    /\ UNCHANGED ws

\* the sidebar checkbox of a group that is not always_on
Toggle(g) ==
    /\ ~groups[g].always_on
    /\ active' = [active EXCEPT ![g] = ~active[g]]
    /\ shown' = NoMessage
    /\ op' = Idle
    /\ UNCHANGED <<ws, val, counter>>

\* typing into the input of a variable of an active group
Edit(k, s) ==
    /\ is_active(k[1])
    /\ s \in Inputs(k)
    /\ val' = [val EXCEPT ![k] = s]
    /\ shown' = NoMessage
    /\ op' = Idle
    /\ UNCHANGED <<ws, active, counter>>

\* mutant of Resync: the handler increments the local counter
Resync_increments(k, reachable) ==
    /\ k \in AutoKeys
    /\ is_active(k[1])
    /\ val' = [val EXCEPT ![k] = format_counter(counter[k] + 1, Var(k))]
    /\ counter' = [counter EXCEPT ![k] = counter[k] + 1]
    /\ shown' = NoMessage
    /\ op' = [kind |-> "resync", key |-> k, ok |-> reachable,
              stale |-> TRUE, row |-> << >>]
    /\ UNCHANGED <<ws, active>>

\* the re-sync button beside an auto_increment input
Resync(k, reachable) ==
    /\ k \in AutoKeys
    /\ is_active(k[1])
    /\ LET next_n == next_from_sheet(k, ws, reachable) IN
        /\ val' = [val EXCEPT ![k] = format_counter(next_n, Var(k))]
        /\ counter' = [counter EXCEPT ![k] = next_n]
        /\ op' = [kind |-> "resync", key |-> k, ok |-> reachable,
                  stale |-> next_n \notin {counter[k], counter[k] + 1},
                  row |-> << >>]
    /\ shown' = NoMessage
    /\ UNCHANGED <<ws, active>>

\* the Reset Fields button: every group's variables, active or not
Reset(reachable) ==
    /\ active_groups # << >>
    /\ counter' = [k \in AutoKeys |-> next_from_sheet(k, ws, reachable)]
    /\ val' = [k \in Keys |->
                 IF k \in AutoKeys
                 THEN format_counter(counter'[k], Var(k))
                 ELSE Var(k).default]
    /\ shown' = NoMessage
    /\ op' = Idle
    /\ UNCHANGED <<ws, active>>

\* Log Run with a required field missing: the error, nothing else
LogBlocked ==
    /\ active_groups # << >>
    /\ missing # << >>
    /\ shown' = [type |-> "error", text |-> "Please fill in required fields",
                 missing |-> missing, run_id |-> EmptyStr]
    /\ op' = [Idle EXCEPT !.kind = "log"]
    /\ UNCHANGED <<ws, active, val, counter>>

\* mutant of WriteLog: the counters are taken from the worksheet after the
\* append, not from the session's own counters
WriteLog_from_store ==
    /\ active_groups # << >>
    /\ missing = << >>
    /\ ws' = append_log(ws, build_row)
    /\ counter' = [k \in AutoKeys |->
                     IF k \in advanced_keys
                     THEN next_from_sheet(k, ws', TRUE) ELSE counter[k]]
    /\ val' = [k \in Keys |->
                 IF k \in advanced_keys
                 THEN format_counter(counter'[k], Var(k))
                 ELSE val[k]]
    /\ shown' = [type |-> "success", text |-> "Run logged", missing |-> << >>,
                 run_id |-> dict_get(build_row, "General -- Run ID", <<"-">>)]
    /\ op' = [Idle EXCEPT !.kind = "log", !.row = build_row]
    /\ UNCHANGED active

\* Log Run, append_log returns: the counters of the active groups advance
WriteLog ==
    /\ active_groups # << >>
    /\ missing = << >>
    /\ ws' = append_log(ws, build_row)
    /\ counter' = [k \in AutoKeys |->
                     IF k \in advanced_keys THEN counter[k] + 1 ELSE counter[k]]
    /\ val' = [k \in Keys |->
                 IF k \in advanced_keys
                 THEN format_counter(counter[k] + 1, Var(k))
                 ELSE val[k]]
    /\ shown' = [type |-> "success", text |-> "Run logged", missing |-> << >>,
                 run_id |-> dict_get(build_row, "General -- Run ID", <<"-">>)]
    /\ op' = [Idle EXCEPT !.kind = "log", !.row = build_row]
    /\ UNCHANGED active

\* the same, while the worksheet is within the bound of the model
LogWritten == Len(ws) <= MaxRows /\ WriteLog

\* Log Run, append_log raises: before any write, or at the row's append_row
\* when the header step has already been written
LogFailed(headed) ==
    /\ active_groups # << >>
    /\ missing = << >>
    /\ ws' = IF headed THEN write_headers(ws, get_all_values(ws), build_row) ELSE ws
    /\ shown' = [type |-> "error", text |-> "Failed to write to Google Sheets",
                 missing |-> << >>, run_id |-> EmptyStr]
    /\ op' = [Idle EXCEPT !.kind = "log"]
    /\ UNCHANGED <<active, val, counter>>

Next ==
    /\ UNCHANGED <<plotVars, concVars>>
    /\ \/ \E reachable \in BOOLEAN : NewSession(reachable)
       \/ \E g \in GroupIds : Toggle(g)
       \/ \E k \in Keys : \E s \in Inputs(k) : Edit(k, s)
       \/ \E k \in AutoKeys, reachable \in BOOLEAN : Resync(k, reachable)
       \/ \E reachable \in BOOLEAN : Reset(reachable)
       \/ LogBlocked
       \/ LogWritten
       \/ \E headed \in BOOLEAN : LogFailed(headed)

Spec == Init /\ [][Next]_vars

(***************************************************************************)
(* Claims about the run-entry form (checked under Spec).                   *)
(***************************************************************************)
group_on(g) == groups[g].always_on \/ active[g]
config_keys == keys_of([g \in GroupIds |-> g])
blank(s) == \A i \in 1..Len(s) : s[i] = " "
\* the required variables of the groups that are on whose value is empty
\* once trimmed, in the configuration's order
empty_required ==
    SelectSeq(config_keys,
              LAMBDA k : group_on(k[1]) /\ Var(k).required /\ blank(val[k]))
log_pressed == op'.kind = "log"
submitted == op'.kind = "log" /\ shown'.type = "success"

\* the next counter the worksheet gives for key k: the largest number found
\* in the cells of its column, plus one; the start value when there is none
numbers_in_column(sheet, k) ==
    IF Len(sheet) < 2 \/ col_name(k) \notin Range(sheet[1]) THEN {}
    ELSE LET c == CHOOSE i \in 1..Len(sheet[1]) : sheet[1][i] = col_name(k)
         IN  {extract_counter(sheet[r][c], Var(k)) :
                 r \in {r \in 2..Len(sheet) : c <= Len(sheet[r])}} \ {None}
next_in_store(sheet, k) ==
    IF numbers_in_column(sheet, k) = {} THEN Var(k).start
    ELSE Max(numbers_in_column(sheet, k)) + 1

\* C4 as stated: a successful submission advances the counter of every
\* auto_increment variable of the configuration by one and shows the new
\* counter, formatted, in its field.
C4_EveryConfiguredCounterAdvances ==
    [][submitted =>
        \A k \in AutoKeys :
            /\ counter'[k] = counter[k] + 1
            /\ val'[k] = format_counter(counter[k] + 1, Var(k))]_vars

\* C4 amended: a successful submission advances by one the counter of every
\* auto_increment variable of an active group and shows the new counter,
\* formatted, in its field; the counter and the field of an auto_increment
\* variable of an inactive group stay as they are.
C4_ActiveCountersAdvance ==
    [][submitted =>
        \A k \in AutoKeys :
            IF group_on(k[1])
            THEN /\ counter'[k] = counter[k] + 1
                 /\ val'[k] = format_counter(counter[k] + 1, Var(k))
            ELSE counter'[k] = counter[k] /\ val'[k] = val[k]]_vars

\* C4 witness: a run was logged with the Laser group off: Run ID has
\* advanced past its start value, Sample has not.
C4_Witness ==
    /\ op.kind = "log" /\ shown.type = "success"
    /\ ~active[2]
    /\ counter[<<1, 1>>] = 2 /\ val[<<1, 1>>] = <<"R", "U", "N", "-", "0", "0", "0", "2">>
    /\ counter[<<2, 1>>] = 5

\* C5: Log Run with a required variable of an active group empty once
\* trimmed appends nothing, changes no counter and no field, and the one
\* error lists exactly those variables, in order.
C5_MissingRequiredBlocks ==
    [][log_pressed /\ empty_required # << >> =>
        /\ ws' = ws /\ counter' = counter /\ val' = val
        /\ shown'.type = "error"
        /\ shown'.missing =
             [i \in 1..Len(empty_required) |-> Var(empty_required[i]).name]]_vars

\* C5 witness: Log Run was pressed with Run ID empty and Power a single
\* space: both are listed.
C5_Witness ==
    /\ op.kind = "log" /\ shown.type = "error"
    /\ val[<<1, 1>>] = EmptyStr /\ val[<<2, 2>>] = <<" ">>
    /\ shown.missing = <<"Run ID", "Power">>

\* C6: a resync sets the counter to the next value the worksheet gives
\* (the start value when the worksheet cannot be read), whatever the local
\* counter was; a successful submission sets it to the local counter plus
\* one, whatever the worksheet holds.
C6_ResyncFromStoreSubmitFromLocal ==
    [][/\ op'.kind = "resync" =>
            LET k == op'.key
                n == IF op'.ok THEN next_in_store(ws, k) ELSE Var(k).start
            IN  counter'[k] = n /\ val'[k] = format_counter(n, Var(k))
       /\ submitted =>
            \A k \in AutoKeys : group_on(k[1]) => counter'[k] = counter[k] + 1]_vars

\* C6 witness: a resync against the readable worksheet set a counter that
\* was neither the worksheet's next value nor one below it.
C6_Witness ==
    /\ op.kind = "resync" /\ op.ok /\ op.stale
    /\ counter[op.key] = next_in_store(ws, op.key)

\* C7: the row submitted has the columns "Timestamp" and one per variable
\* of every group that is on (always_on or toggled on), no others; and Log
\* Run is not blocked when the only empty required variables are those of
\* groups that are off.
C7_OnlyActiveGroupsSubmit ==
    [][/\ submitted =>
            /\ Range(dict_keys(op'.row)) =
                 {"Timestamp"} \cup {col_name(k) : k \in {j \in Keys : group_on(j[1])}}
            /\ Len(op'.row) = 1 + Cardinality({j \in Keys : group_on(j[1])})
       /\ log_pressed /\ empty_required = << >> => shown'.missing = << >>]_vars

\* C7 witness: a run was logged with the Laser group off and its required
\* Power empty; the row has Timestamp and Run ID only.
C7_Witness ==
    /\ op.kind = "log" /\ shown.type = "success"
    /\ ~active[2] /\ val[<<2, 2>>] = EmptyStr
    /\ dict_keys(op.row) = <<"Timestamp", "General -- Run ID">>

(***************************************************************************)
(* The worksheet adapter on its own: one writer calls append_log with any  *)
(* row of the set Rows, starting from the blank worksheet.                 *)
(***************************************************************************)
\* dicts with "Timestamp" first, then any of "A" and "B" in either order
Rows ==
    LET T == <<"Timestamp", now>>
        A == <<"A", <<"x">>>>
        Bs == {<<"B", EmptyStr>>, <<"B", <<"y">>>>}
    IN  {<<T>>, <<T, A>>}
            \cup {<<T, B>> : B \in Bs}
            \cup {<<T, A, B>> : B \in Bs}
            \cup {<<T, B, A>> : B \in Bs}

SessionIdle ==
    /\ active = init_active
    /\ counter = init_counter(NewSheet, TRUE)
    /\ val = init_val(counter)
    /\ shown = NoMessage

InitStore == ws = NewSheet /\ SessionIdle /\ op = Idle /\ PlotIdle /\ Alone

\* append_log(row) returns
AppendLog(row) ==
    /\ Len(ws) <= MaxAppends
    /\ ws' = append_log(ws, row)
    /\ op' = [Idle EXCEPT !.kind = "append", !.row = row]

\* append_log(row) raises: before any write, or at the row's append_row
\* when the header step has already been written
AppendLogFailed(row, headed) ==
    /\ Len(ws) <= MaxAppends
    /\ ws' = IF headed THEN write_headers(ws, get_all_values(ws), row) ELSE ws
    /\ op' = [Idle EXCEPT !.kind = "append", !.ok = FALSE, !.row = row]

NextStore ==
    /\ UNCHANGED <<active, val, counter, shown, plotVars, concVars>>
    /\ \/ \E row \in Rows : AppendLog(row)
       \/ \E row \in Rows, headed \in BOOLEAN : AppendLogFailed(row, headed)

SpecStore == InitStore /\ [][NextStore]_vars

(***************************************************************************)
(* Claims about the worksheet adapter (checked under SpecStore).           *)
(***************************************************************************)
IsPrefix(s, t) == Len(s) <= Len(t) /\ \A i \in 1..Len(s) : s[i] = t[i]
header(sheet) == IF sheet = << >> THEN << >> ELSE sheet[1]
data_rows(sheet) == IF sheet = << >> THEN << >> ELSE Tail(sheet)

\* C1: whenever append_log is called (and also when it fails half way), the
\* header row afterwards has the header row before as a prefix, so that no
\* column is removed or moved and new ones come last; and when the row is
\* written, every column of the row is in the header row.
C1_HeaderGrowsAndCoversRow ==
    [][op'.kind = "append" =>
        /\ IsPrefix(header(ws), header(ws'))
        /\ op'.ok => Range(dict_keys(op'.row)) \subseteq Range(header(ws'))]_vars

\* C1 witness: a row with a new column has been appended to a worksheet that
\* already had a header and a data row without that column.
C1_Witness ==
    /\ op.kind = "append" /\ op.ok
    /\ Len(ws) >= 3
    /\ Len(ws[2]) < Len(ws[1])
    /\ Len(ws[Len(ws)]) = Len(ws[1])
    /\ has_key(op.row, ws[1][Len(ws[1])])

\* the cell append must write under column c for the dict row
cell_for(row, c) ==
    IF \E i \in 1..Len(row) : row[i][1] = c
    THEN row[CHOOSE i \in 1..Len(row) : row[i][1] = c][2]
    ELSE EmptyStr

\* C2: a call of append_log that returns adds exactly one data row; its i-th
\* cell is the row's value for the i-th column of the header as it is after
\* the call, "" when the row has no such column; the data rows stored before
\* are as they were.
C2_OneAlignedRowAdded ==
    [][op'.kind = "append" /\ op'.ok =>
        LET h == header(ws')
            added == ws'[Len(ws')]
        IN  /\ Len(data_rows(ws')) = Len(data_rows(ws)) + 1
            /\ SubSeq(data_rows(ws'), 1, Len(data_rows(ws))) = data_rows(ws)
            /\ Len(added) = Len(h)
            /\ \A i \in 1..Len(h) : added[i] = cell_for(op'.row, h[i])]_vars

\* C2 witness: the row just appended lacks a column of the header (its cell
\* is ""), and an earlier data row is shorter than the header: the column
\* added after it was not filled in for it.
C2_Witness ==
    /\ op.kind = "append" /\ op.ok
    /\ Len(ws) >= 3
    /\ Len(ws[2]) < Len(ws[1])
    /\ \E i \in 1..Len(ws[1]) :
        ~has_key(op.row, ws[1][i]) /\ ws[Len(ws)][i] = EmptyStr

(***************************************************************************)
(* Counter synchronisation on its own: a session opened on a worksheet     *)
(* whose second column holds any list of historical values, under the      *)
(* name of one of the counters' columns or under another name; the user    *)
(* presses the re-sync buttons.                                            *)
(***************************************************************************)
HistValues == {
    EmptyStr,
    <<"b", "a", "d">>,
    <<"R", "U", "N", "-", "0", "0", "0", "7">>,
    <<"R", "U", "N", "-", "0", "0", "1", "2">>,
    <<"3">>,
    <<"1", "a", "2">> }

RECURSIVE Lists(_, _)
\* the sequences over S of length at most n
Lists(S, n) ==
    IF n = 0 THEN {<< >>}
    ELSE Lists(S, n - 1)
            \cup {Append(l, x) : l \in {m \in Lists(S, n - 1) : Len(m) = n - 1}, x \in S}

sheet_with(name, hist) ==
    <<<<"Timestamp", name>>>> \o [i \in 1..Len(hist) |-> <<now, hist[i]>>]

InitCounter ==
    /\ \E name \in {col_name(k) : k \in AutoKeys} \cup {"Notes"},
          hist \in Lists(HistValues, MaxHist) : ws = sheet_with(name, hist)
    /\ active = init_active
    /\ \E reachable \in BOOLEAN : counter = init_counter(ws, reachable)
    /\ val = init_val(counter)
    /\ shown = NoMessage
    /\ op = Idle
    /\ PlotIdle
    /\ Alone

NextCounter ==
    /\ UNCHANGED <<plotVars, concVars>>
    /\ \E k \in AutoKeys, reachable \in BOOLEAN : Resync(k, reachable)

SpecCounter == InitCounter /\ [][NextCounter]_vars

\* the historical values of a worksheet built by sheet_with
history == [i \in 1..(Len(ws) - 1) |-> ws[i + 1][2]]

\* C3: after a resync that reads the worksheet, the counter is the largest
\* number extracted from the values of its column plus one, and the
\* variable's start value when the column is missing, has no values or none
\* of them parses; values that do not parse are skipped.  Run ID (prefix
\* "RUN-", pad 4, start 1) over "RUN-0007", "RUN-0012", "bad" gives 13,
\* shown as "RUN-0013"; over "bad" alone it gives 1.
C3_NextCounterFromHistory ==
    op.kind = "resync" /\ op.ok =>
        LET k == op.key IN
        /\ counter[k] = next_in_store(ws, k)
        /\ ws[1][2] # col_name(k) => counter[k] = Var(k).start
        /\ \A i \in 1..Len(history) :
              ws[1][2] = col_name(k) /\ extract_counter(history[i], Var(k)) # None
                  => counter[k] > extract_counter(history[i], Var(k))
        /\ (k = <<1, 1>> /\ ws[1][2] = col_name(k)) =>
              /\ history = << <<"R", "U", "N", "-", "0", "0", "0", "7">>,
                              <<"R", "U", "N", "-", "0", "0", "1", "2">>,
                              <<"b", "a", "d">> >>
                    => /\ counter[k] = 13
                       /\ val[k] = <<"R", "U", "N", "-", "0", "0", "1", "3">>
              /\ Range(history) \subseteq {<<"b", "a", "d">>, EmptyStr}
                    => counter[k] = 1 /\ val[k] = <<"R", "U", "N", "-", "0", "0", "0", "1">>

\* C3 witness: Run ID was resynced over "RUN-0007", "RUN-0012", "bad".
C3_Witness ==
    /\ op.kind = "resync" /\ op.ok /\ op.key = <<1, 1>>
    /\ ws[1][2] = col_name(<<1, 1>>)
    /\ history = << <<"R", "U", "N", "-", "0", "0", "0", "7">>,
                    <<"R", "U", "N", "-", "0", "0", "1", "2">>,
                    <<"b", "a", "d">> >>
    /\ counter[<<1, 1>>] = 13

(***************************************************************************)
(* The plot tab: the filtered table is binned on the rounded X and Y       *)
(* values, each bin gets its count, its colour and its bubble size.        *)
(* A number is held in hundredths (150 is 1.5); NaN is what load_log's    *)
(* to_numeric(errors="coerce") leaves in a numeric column for a cell that  *)
(* is empty or not a number.  A bubble size is a fraction <<num, den>>.    *)
(***************************************************************************)
NaN == -1
NoColour == << >>
MinSize == 8

Pow10(n) == IF n = 0 THEN 1 ELSE IF n = 1 THEN 10 ELSE 100

\* Series.round(decimals) on a number in hundredths: to the nearest multiple
\* of the unit, a tie going to the even multiple; NaN stays NaN
round(v, decimals) ==
    IF v = NaN \/ decimals >= 2 THEN v
    ELSE LET unit == Pow10(2 - decimals)
             low == v - (v % unit)
         IN  IF 2 * (v % unit) < unit THEN low
             ELSE IF 2 * (v % unit) > unit THEN low + unit
             ELSE IF (low \div unit) % 2 = 0 THEN low ELSE low + unit

\* Python's order on str: by the first character that differs, a proper
\* prefix first
ord(c) ==
    CHOOSE i \in 1..26 :
        <<"a", "b", "c", "d", "e", "f", "g", "h", "i", "j", "k", "l", "m",
          "n", "o", "p", "q", "r", "s", "t", "u", "v", "w", "x", "y", "z">>[i] = c
RECURSIVE str_lt(_, _)
str_lt(a, b) ==
    IF b = << >> THEN FALSE
    ELSE IF a = << >> THEN TRUE
    ELSE IF a[1] # b[1] THEN ord(a[1]) < ord(b[1])
    ELSE str_lt(Tail(a), Tail(b))

\* how often v occurs in the sequence xs
occurrences(xs, v) == Cardinality({i \in 1..Len(xs) : xs[i] = v})

\* the values of xs that occur most often
modes(xs) ==
    {v \in Range(xs) : \A w \in Range(xs) : occurrences(xs, w) <= occurrences(xs, v)}

\* mutant of mode_first: of the most frequent values, the one met first
mode_first_seen(xs) ==
    IF xs = << >> THEN EmptyStr
    ELSE xs[Min({i \in 1..Len(xs) : xs[i] \in modes(xs)})]

\* lambda x: x.mode().iloc[0] if len(x) > 0 else "": Series.mode() gives the
\* most frequent values sorted, iloc[0] is the first of them
mode_first(xs) ==
    IF xs = << >> THEN EmptyStr
    ELSE CHOOSE v \in modes(xs) : \A w \in modes(xs) : ~str_lt(w, v)

\* plot_df["_x_bin"], plot_df["_y_bin"] of record r
bin_of(r, p) == <<round(r.x, p.x_decimals), round(r.y, p.y_decimals)>>

\* the groups of groupby(["_x_bin", "_y_bin"]): a key with a NaN in it makes
\* no group (dropna is on unless it is switched off)
bin_keys(df, p) ==
    {bin_of(df[i], p) : i \in 1..Len(df)} \ {b \in {bin_of(df[i], p) : i \in 1..Len(df)} :
                                                 b[1] = NaN \/ b[2] = NaN}
members(df, p, b) == SelectSeq(df, LAMBDA r : bin_of(r, p) = b)

\* (x_col, "count"): the members of the bin whose X is not NaN
bin_count(df, p, b) == Len(SelectSeq(members(df, p, b), LAMBDA r : r.x # NaN))

bin_colour(df, p, b) ==
    IF p.colour_col = "(none)" THEN NoColour
    ELSE mode_first([i \in 1..Len(members(df, p, b)) |-> members(df, p, b)[i].colour])

\* mutant of bin_size: equal counts get the midpoint of [8, size_scale]
bin_size_midpoint(c, lo, hi, size_scale) ==
    IF hi > lo
    THEN <<MinSize * (hi - lo) + (size_scale - MinSize) * (c - lo), hi - lo>>
    ELSE <<MinSize + size_scale, 2>>

\* the size of a bin with count c when the counts run from lo to hi
bin_size(c, lo, hi, size_scale) ==
    IF hi > lo
    THEN <<MinSize * (hi - lo) + (size_scale - MinSize) * (c - lo), hi - lo>>
    ELSE <<size_scale, 2>>

aggregate(df, p) ==
    LET keys == bin_keys(df, p)
        counts == {bin_count(df, p, b) : b \in keys}
    IN  [b \in keys |->
            [count |-> bin_count(df, p, b),
             colour |-> bin_colour(df, p, b),
             size |-> bin_size(bin_count(df, p, b), Min(counts), Max(counts),
                               p.size_scale)]]

\* the records of the filtered table: X and Y in hundredths or NaN, and the
\* value of a categorical column
Records ==
    {[x |-> c[1], y |-> c[2], colour |-> col] :
        c \in {<<150, 100>>, <<250, 100>>, <<NaN, 100>>, <<150, NaN>>},
        col \in {<<"r", "e", "d">>, <<"b", "l", "u", "e">>}}

\* what the rounding, bubble size and colour widgets may be set to
PlotSettings ==
    [x_decimals : {0, 1}, y_decimals : {1}, size_scale : {25, 50},
     colour_col : {"(none)", "Colour"}]

InitPlot ==
    /\ ws = NewSheet /\ SessionIdle /\ op = Idle /\ Alone
    /\ df_filtered \in Lists(Records, MaxRecords) \ {<< >>}
    /\ plot = NoPlot
    /\ grouped = NotRun

\* a run of the plot tab with the widgets set to p
Aggregate(p) ==
    /\ plot' = p
    /\ grouped' = aggregate(df_filtered, p)
    /\ op' = [Idle EXCEPT !.kind = "aggregate"]
    /\ UNCHANGED <<formVars, df_filtered, concVars>>

NextPlot == \E p \in PlotSettings : Aggregate(p)

SpecPlot == InitPlot /\ [][NextPlot]_vars

(***************************************************************************)
(* Claims about the aggregation (checked under SpecPlot).                  *)
(***************************************************************************)
RECURSIVE sum_counts(_, _)
sum_counts(g, keys) ==
    IF keys = {} THEN 0
    ELSE LET b == CHOOSE b \in keys : TRUE
         IN  g[b].count + sum_counts(g, keys \ {b})

aggregated == op.kind = "aggregate"
bins == DOMAIN grouped
colours_of(b) ==
    LET m == SelectSeq(df_filtered, LAMBDA r : bin_of(r, plot) = b)
    IN  [i \in 1..Len(m) |-> m[i].colour]
same_size(a, b) == a[1] * b[2] = b[1] * a[2]

\* C8: the counts of the bins add up to the number of records of the
\* filtered table, records with a missing X or Y included.
C8_CountsSumToRecords ==
    aggregated => sum_counts(grouped, bins) = Len(df_filtered)

\* C9 as stated: the colour of a bin is a value that occurs most often among
\* the bin's records and, of those, the one met first in record order.
C9_ModeFirstEncountered ==
    aggregated /\ plot.colour_col # "(none)" =>
        \A b \in bins :
            LET xs == colours_of(b)
                first(v) == Min({i \in 1..Len(xs) : xs[i] = v})
            IN  /\ \A w \in Range(xs) :
                      occurrences(xs, w) <= occurrences(xs, grouped[b].colour)
                /\ \A w \in Range(xs) :
                      occurrences(xs, w) = occurrences(xs, grouped[b].colour)
                          => first(grouped[b].colour) <= first(w)

\* C9 amended: the colour of a bin is a value that occurs most often among
\* the bin's records and, of those, the one that sorts first ("red", "red",
\* "blue" gives "red"; the tie "red", "blue" gives "blue").
C9_ModeSmallestOfTies ==
    aggregated /\ plot.colour_col # "(none)" =>
        \A b \in bins :
            LET xs == colours_of(b)
                red == <<"r", "e", "d">>
                blue == <<"b", "l", "u", "e">>
            IN  /\ grouped[b].colour \in Range(xs)
                /\ \A w \in Range(xs) :
                      occurrences(xs, w) <= occurrences(xs, grouped[b].colour)
                /\ \A w \in Range(xs) :
                      occurrences(xs, w) = occurrences(xs, grouped[b].colour)
                          => ~str_lt(w, grouped[b].colour)
                /\ xs = <<red, red, blue>> => grouped[b].colour = red
                /\ xs \in {<<red, blue>>, <<blue, red>>} => grouped[b].colour = blue

\* C9 witness: a bin holds "red" then "blue", once each, and is "blue".
C9_Witness ==
    /\ aggregated /\ plot.colour_col # "(none)"
    /\ \E b \in bins :
        /\ colours_of(b) = << <<"r", "e", "d">>, <<"b", "l", "u", "e">> >>
        /\ grouped[b].colour = <<"b", "l", "u", "e">>

\* C10 as stated: with all counts equal every bin has the size
\* (8 + size_scale) / 2; otherwise the bins with the least count have size 8
\* and those with the greatest have size_scale.
C10_EqualCountsGetMidpoint ==
    aggregated =>
        LET counts == {grouped[b].count : b \in bins} IN
        \A b \in bins :
            IF Cardinality(counts) = 1
            THEN same_size(grouped[b].size, <<MinSize + plot.size_scale, 2>>)
            ELSE /\ grouped[b].count = Min(counts)
                    => same_size(grouped[b].size, <<MinSize, 1>>)
                 /\ grouped[b].count = Max(counts)
                    => same_size(grouped[b].size, <<plot.size_scale, 1>>)

\* C10 amended: with all counts equal every bin has the size
\* size_scale / 2; otherwise the bins with the least count have size 8 and
\* those with the greatest have size_scale.
C10_EqualCountsGetHalfScale ==
    aggregated =>
        LET counts == {grouped[b].count : b \in bins} IN
        \A b \in bins :
            IF Cardinality(counts) = 1
            THEN same_size(grouped[b].size, <<plot.size_scale, 2>>)
            ELSE /\ grouped[b].count = Min(counts)
                    => same_size(grouped[b].size, <<MinSize, 1>>)
                 /\ grouped[b].count = Max(counts)
                    => same_size(grouped[b].size, <<plot.size_scale, 1>>)

\* C10 witness: two bins of one record each, both of size size_scale / 2.
C10_Witness ==
    /\ aggregated
    /\ Cardinality(bins) = 2
    /\ \A b \in bins :
        grouped[b].count = 1 /\ same_size(grouped[b].size, <<plot.size_scale, 2>>)

(***************************************************************************)
(* Two concurrent append_log calls (two sessions pressing Log Run): each   *)
(* worksheet call of append_log is a step of its own, and the steps of     *)
(* the two callers interleave freely.  A caller holds the row it was       *)
(* given, what get_all_values returned (existing) and the row re-keyed by  *)
(* the header it read back (aligned).                                      *)
(***************************************************************************)
Writers == {1, 2}

\* a worksheet before the two calls: blank, or a header and one logged row
RaceSheets == {NewSheet, append_log(NewSheet, << <<"Timestamp", now>> >>)}

InitRace ==
    /\ ws \in RaceSheets
    /\ SessionIdle /\ op = Idle /\ PlotIdle
    /\ peer = NoPeer /\ trip = NoTrip
    /\ \E r1 \in Rows, r2 \in Rows :
          writers = [w \in Writers |->
                        [pc |-> "start", row |-> IF w = 1 THEN r1 ELSE r2,
                         existing |-> << >>, aligned |-> << >>]]

\* existing = ws.get_all_values()
GetAllValues(w) ==
    /\ writers[w].pc = "start"
    /\ writers' = [writers EXCEPT ![w].pc = "header",
                                  ![w].existing = get_all_values(ws)]
    /\ op' = [Idle EXCEPT !.kind = "get_all_values", !.key = <<w, 0>>]
    /\ UNCHANGED ws

\* the header step: append_row of the keys on a blank sheet (the row is then
\* appended as built), else ws.update("1:1", ...) when there are new columns
WriteHeaders(w) ==
    /\ writers[w].pc = "header"
    /\ ws' = write_headers(ws, writers[w].existing, writers[w].row)
    /\ writers' = IF writers[w].existing = << >>
                  THEN [writers EXCEPT ![w].pc = "append",
                                       ![w].aligned = writers[w].row]
                  ELSE [writers EXCEPT ![w].pc = "reread"]
    /\ op' = [Idle EXCEPT !.kind = "write_headers", !.key = <<w, 0>>]

\* current_headers = ws.row_values(1); row = {k: row.get(k, "") ...}
RowValues(w) ==
    /\ writers[w].pc = "reread"
    /\ writers' = [writers EXCEPT
                      ![w].pc = "append",
                      ![w].aligned = align_row(ws, writers[w].existing, writers[w].row)]
    /\ op' = [Idle EXCEPT !.kind = "row_values", !.key = <<w, 0>>]
    /\ UNCHANGED ws

\* ws.append_row(list(row.values()))
AppendRow(w) ==
    /\ writers[w].pc = "append"
    /\ ws' = append_row(ws, dict_values(writers[w].aligned))
    /\ writers' = [writers EXCEPT ![w].pc = "done"]
    /\ op' = [Idle EXCEPT !.kind = "append_row", !.key = <<w, 0>>]

NextRace ==
    /\ UNCHANGED <<active, val, counter, shown, plotVars, peer, trip>>
    /\ \/ \E w \in Writers : GetAllValues(w)
       \/ \E w \in Writers : WriteHeaders(w)
       \/ \E w \in Writers : RowValues(w)
       \/ \E w \in Writers : AppendRow(w)

SpecRace == InitRace /\ [][NextRace]_vars

(***************************************************************************)
(* Claims about the race (checked under SpecRace).                         *)
(***************************************************************************)
\* the caller has read a non-blank sheet whose header row has since changed
stale(w) ==
    /\ writers[w].existing # << >>
    /\ header(writers[w].existing) # header(ws)
header_shrinks == ~IsPrefix(header(ws), header(ws'))
\* a column of the caller's row holding a value that the re-keyed row lacks
dropped(w) ==
    {k \in Range(dict_keys(writers[w].row)) :
        /\ dict_get(writers[w].row, k, EmptyStr) # EmptyStr
        /\ ~has_key(writers[w].aligned, k)}

\* C11: append_log is not atomic over its worksheet calls and does not guard
\* against another caller.  A step takes a column out of the header row only
\* as the header write of a caller whose read of the sheet is stale, and a
\* caller's re-keyed row lacks one of its values only when the other caller
\* has written the header row from a read that did not have that column; the
\* witness is an interleaving where both happen.
C11_StaleHeaderWriteLosesColumn ==
    [][/\ header_shrinks =>
            \E w \in Writers :
                /\ writers[w].pc = "header" /\ writers'[w].pc = "reread"
                /\ stale(w)
       /\ \A w \in Writers :
            writers'[w].pc \in {"append", "done"} /\ dropped(w)' # {} =>
                \E v \in Writers \ {w} :
                    /\ writers'[v].pc \in {"reread", "append", "done"}
                    /\ writers'[v].existing # << >>
                    /\ \A k \in dropped(w)' : k \notin Range(header(writers'[v].existing))
      ]_vars

\* C11 witness: both calls are over; caller 1 brought the new column "A" with
\* the value "x" and wrote it into the header row, the header row no longer
\* has "A", and the row caller 1 appended has no cell for it.
C11_Witness ==
    /\ \A w \in Writers : writers[w].pc = "done"
    /\ writers[1].existing # << >>
    /\ "A" \notin Range(header(writers[1].existing))
    /\ "A" \in dropped(1)
    /\ "A" \notin Range(header(ws))
    /\ <<"x">> \notin Range(dict_values(writers[1].aligned))

(***************************************************************************)
(* Two browser sessions on one worksheet.  The form variables hold the     *)
(* session state of the session whose script is running (peer.front);      *)
(* peer holds the st.session_state of the other one.  Script runs of the   *)
(* two sessions interleave; append_log is taken as one step here.  Nobody  *)
(* types into a field, so a run is logged with the toggleable group, whose *)
(* required text field is blank, switched off.  peer.logged names, row by  *)
(* row, the session that logged it, and peer.resynced is whether a re-sync *)
(* button has been pressed (both observation only).                        *)
(***************************************************************************)
run_id_key == <<1, 1>>

\* the worksheet both sessions are opened on: blank, or one logged run
SessionSheets ==
    {NewSheet,
     sheet_with(col_name(run_id_key), << <<"R", "U", "N", "-", "0", "0", "0", "7">> >>)}

InitSessions ==
    /\ ws \in SessionSheets
    /\ active = init_active
    /\ counter = init_counter(ws, TRUE)
    /\ val = init_val(counter)
    /\ shown = NoMessage
    /\ op = Idle
    /\ PlotIdle
    /\ writers = NoWriters /\ trip = NoTrip
    /\ peer = [front |-> 1, active |-> active, val |-> val, counter |-> counter,
               shown |-> shown, logged |-> << >>, resynced |-> FALSE]

\* the next script run is the other session's
Switch ==
    /\ active' = peer.active /\ val' = peer.val
    /\ counter' = peer.counter /\ shown' = peer.shown
    /\ peer' = [peer EXCEPT !.front = 3 - peer.front, !.active = active,
                            !.val = val, !.counter = counter, !.shown = shown]
    /\ op' = [Idle EXCEPT !.kind = "switch"]
    /\ UNCHANGED ws

SessionToggle(g) == Toggle(g) /\ UNCHANGED peer
SessionResync(k) == Resync(k, TRUE) /\ peer' = [peer EXCEPT !.resynced = TRUE]
SessionLog ==
    /\ Len(peer.logged) < MaxLogs
    /\ WriteLog
    /\ peer' = [peer EXCEPT !.logged = Append(@, peer.front)]

NextSessions ==
    /\ UNCHANGED <<plotVars, writers, trip>>
    /\ \/ Switch
       \/ \E g \in GroupIds : SessionToggle(g)
       \/ \E k \in AutoKeys : SessionResync(k)
       \/ SessionLog

SpecSessions == InitSessions /\ [][NextSessions]_vars

(***************************************************************************)
(* Claims about two sessions (checked under SpecSessions).                 *)
(***************************************************************************)
\* the cells of column k in the rows that session i logged
logged_by(i, k) ==
    LET first == Len(ws) - Len(peer.logged)
        c == index(ws[1], col_name(k))
    IN  [j \in 1..Len(SelectSeq(peer.logged, LAMBDA x : x = i)) |->
            ws[first + (CHOOSE n \in 1..Len(peer.logged) :
                          /\ peer.logged[n] = i
                          /\ Cardinality({m \in 1..n : peer.logged[m] = i}) = j)][c]]

\* C12: two sessions opened on the same worksheet that log without
\* resyncing drift from it.  A submission advances the submitting session's
\* counters by one from its own counters and leaves the other session's
\* counters alone, whatever the worksheet holds; only a resync sets a counter
\* to the worksheet's maximum + 1.  The witness is a state where both
\* sessions have logged the same Run ID and the running session's counter is
\* not the worksheet's maximum + 1.
C12_SessionsAdvanceOnlyLocally ==
    [][/\ submitted =>
            /\ peer'.counter = peer.counter /\ peer'.val = peer.val
            /\ \A k \in AutoKeys :
                counter'[k] = IF group_on(k[1]) THEN counter[k] + 1 ELSE counter[k]
       /\ op'.kind = "resync" =>
            /\ peer'.counter = peer.counter /\ peer'.val = peer.val
            /\ counter'[op'.key] = next_in_store(ws, op'.key)
       /\ op'.kind = "switch" =>
            /\ counter' = peer.counter /\ peer'.counter = counter
            /\ ws' = ws
      ]_vars

\* C12 witness: neither session has resynced since it was opened, a Run ID
\* that session 1 logged is also one that session 2 logged, and the running
\* session's Run ID counter is not the worksheet's maximum + 1.
C12_Witness ==
    /\ peer # NoPeer
    /\ Range(logged_by(1, run_id_key)) \cap Range(logged_by(2, run_id_key)) # {}
    /\ counter[run_id_key] # next_in_store(ws, run_id_key)
    /\ ~peer.resynced

(***************************************************************************)
(* One session on a worksheet that answers every call and that nobody      *)
(* else writes to; the user does not type into an auto_increment field.    *)
(* The auto_increment input is taken to show the session value the script  *)
(* hands it, which is what the handlers rely on when they set that value.  *)
(***************************************************************************)
InitSingle ==
    /\ ws \in SessionSheets
    /\ active = init_active
    /\ counter = init_counter(ws, TRUE)
    /\ val = init_val(counter)
    /\ shown = NoMessage
    /\ op = Idle
    /\ PlotIdle
    /\ Alone

SingleLog == Len(ws) <= MaxOwnRows /\ WriteLog

NextSingle ==
    /\ UNCHANGED <<plotVars, concVars>>
    /\ \/ NewSession(TRUE)
       \/ \E g \in GroupIds : Toggle(g)
       \/ \E k \in Keys \ AutoKeys : \E s \in Inputs(k) : Edit(k, s)
       \/ \E k \in AutoKeys : Resync(k, TRUE)
       \/ Reset(TRUE)
       \/ LogBlocked
       \/ SingleLog

SpecSingle == InitSingle /\ [][NextSingle]_vars

(***************************************************************************)
(* Claims about the lone session (checked under SpecSingle).               *)
(***************************************************************************)
in_step_with_store ==
    \A k \in AutoKeys :
        /\ counter[k] = next_in_store(ws, k)
        /\ val[k] = format_counter(counter[k], Var(k))

\* C13: in a single session with a reachable store, no other writer and no
\* manual edit of an auto_increment field, before and after every action
\* (session init, submit whether written or blocked or with the group off,
\* resync, reset, toggle) each counter is the next value of its worksheet
\* column (maximum + 1, or start); so the number a submission logs in such
\* a column is greater than every number the column held.
C13_CounterInStepWithStore ==
    [][/\ in_step_with_store
       /\ in_step_with_store'
       /\ submitted =>
            \A k \in AutoKeys :
                group_on(k[1]) =>
                    /\ has_key(op'.row, col_name(k))
                    /\ extract_counter(dict_get(op'.row, col_name(k), EmptyStr), Var(k))
                          = counter[k]
                    /\ \A n \in numbers_in_column(ws, k) : n < counter[k]
                    /\ counter[k] \in numbers_in_column(ws', k)
      ]_vars

\* C13 witness: the session has just logged a row with both groups on, onto
\* a worksheet that already held a row, and both counters are the next
\* values of their columns.
C13_Witness ==
    /\ op.kind = "log" /\ shown.type = "success"
    /\ Len(ws) >= 3
    /\ \A k \in AutoKeys :
        /\ has_key(op.row, col_name(k))
        /\ numbers_in_column(ws, k) # {}
        /\ counter[k] = Max(numbers_in_column(ws, k)) + 1

(***************************************************************************)
(* The auto-increment helpers on their own: a number and an                *)
(* auto_increment variable of any format, pad and prefix; format_counter   *)
(* renders the number, extract_counter reads the text back.                *)
(***************************************************************************)
Prefixes == {
    EmptyStr,
    <<"R", "U", "N", "-">>,
    <<"R", "2", "-">>,
    <<"1">>,
    <<"0">> }

AutoVars ==
    [name : {"Run ID"}, type : {"auto_increment"}, required : {TRUE},
     default : {EmptyStr}, start : {1}, pad : {1, 2, 4},
     prefix : Prefixes, format : {"padded", "prefixed"}]

InitTrip ==
    /\ ws = NewSheet /\ SessionIdle /\ op = Idle /\ PlotIdle
    /\ writers = NoWriters /\ peer = NoPeer
    /\ \E n \in 0..MaxN, var \in AutoVars :
          trip = [stage |-> "given", n |-> n, var |-> var,
                  text |-> EmptyStr, back |-> None]

\* text = format_counter(n, var)
Format ==
    /\ trip.stage = "given"
    /\ trip' = [trip EXCEPT !.stage = "formatted",
                            !.text = format_counter(trip.n, trip.var)]

\* back = extract_counter(text, var)
Extract ==
    /\ trip.stage = "formatted"
    /\ trip' = [trip EXCEPT !.stage = "extracted",
                            !.back = extract_counter(trip.text, trip.var)]

NextTrip ==
    /\ UNCHANGED <<formVars, op, plotVars, writers, peer>>
    /\ \/ Format
       \/ Extract

SpecTrip == InitTrip /\ [][NextTrip]_vars

(***************************************************************************)
(* Claims about the helpers (checked under SpecTrip).                      *)
(***************************************************************************)
\* C14: round trip: for every number n >= 0 and every auto_increment
\* variable (format padded or prefixed, any pad, any prefix, also one that
\* contains digits), extract_counter(format_counter(n, var), var) = n.
C14_RoundTrip ==
    trip.stage = "extracted" => trip.back = trip.n

====
